---- MODULE Spec2Model ----
(***************************************************************************)
(* The MACD trading dashboard of streamlit-macd-app.py: one run of main()  *)
(* (credentials, connect, candle fetch, indicators, trend and signal       *)
(* display, chart, trade button), re-run on every user interaction.        *)
(*                                                                         *)
(* Floats are modelled as records [nan, v]: nan marks pandas/TA-Lib's NaN, *)
(* v is a small integer (only the order of the values is read by the       *)
(* code).  TA-Lib's outputs are NaN before their lookback and otherwise    *)
(* drawn from a bounded set.                                               *)
(***************************************************************************)
EXTENDS Integers, FiniteSets, Sequences, TLC

VARIABLES
    pc,             \* position in main(): start, connect, fetch, analyze, trade, done
    check_connect,  \* result of client.connect(): unset, true, false, raised
    fetch,          \* result of client.get_candles(): unset, empty, data, raised
    df,             \* the DataFrame get_data() returned (DfNone: None)
    status,         \* text of status_placeholder
    error,          \* what st.error shows
    trend,          \* st.metric("Trend", ...)
    signal,         \* st.metric("Signal", ...)
    warning,        \* st.warning("No valid trading signal at the moment") shown
    place,          \* what st.button("Place Trade") returned: unset, true, false
    trade,          \* the direction strategy.execute_trade was called with
    probe,          \* history: one (prev, curr) input, fixed for a behaviour
    probeSignal,    \* history: the Signal shown by the first run on probe
    lastSignal      \* history: the Signal shown by the run before this one,
                    \* recorded once probe has been classified

ghostVars == <<probe, probeSignal, lastSignal>>
vars == <<pc, check_connect, fetch, df, status, error, trend, signal,
          warning, place, trade, probe, probeSignal, lastSignal>>

\* ---------------------------------------------------------------- bounds
MaxCandles == 201
MaxVal == 1
MaxClose == 1

\* ------------------------------------------------------ program constants
ma_period == 200
macd_slow == 26
macd_signal == 9

\* ------------------------------------------------------------------ floats
NaN == [nan |-> TRUE, v |-> 0]
Num(x) == [nan |-> FALSE, v |-> x]
Zero == Num(0)

\* Python float comparisons: every comparison with NaN is False.
Gt(a, b) == ~a.nan /\ ~b.nan /\ a.v > b.v
Lt(a, b) == ~a.nan /\ ~b.nan /\ a.v < b.v
Le_NaNIsTrue(a, b) == a.nan \/ b.nan \/ a.v <= b.v
Le(a, b) == ~a.nan /\ ~b.nan /\ a.v <= b.v
Ge(a, b) == ~a.nan /\ ~b.nan /\ a.v >= b.v

\* -------------------------------------------------------------- indicators
\* talib.MACD: macd, signal and hist are NaN for the first
\* (slowperiod - 1) + (signalperiod - 1) rows.
MacdLookback_SlowOnly == macd_slow - 1
MacdLookback == (macd_slow - 1) + (macd_signal - 1)
\* talib.SMA: NaN for the first timeperiod - 1 rows.
SmaLookback == ma_period - 1

Closes == 0 .. MaxClose
Macds == (0 - MaxVal) .. MaxVal
\* hist = macd - signal; the code reads only the order of macd and signal.
Hists == {0 - 1, 0, 1}

\* The macd and signal values of row i (0-based): <<macd, signal>>.
MacdRows(i) ==
    IF i >= MacdLookback
    THEN {<<Num(m), Num(m - h)>> : m \in Macds, h \in Hists}
    ELSE {<<NaN, NaN>>}

SmaValues(i) == IF i >= SmaLookback THEN {Num(c) : c \in Closes} ELSE {NaN}

DfNone ==
    [none |-> TRUE, len |-> 0, close |-> NaN, ma200 |-> NaN,
     macd |-> NaN, signal |-> NaN, macd_prev |-> NaN, signal_prev |-> NaN]

\* The DataFrames get_historical_data can return for n >= 1 candles whose last
\* close is in closes; of the columns, the rows iloc[-1] (close, ma200, macd,
\* signal) and iloc[-2] (macd_prev, signal_prev) are kept.  With one row there
\* is no iloc[-2].
DataFrames(n, closes) ==
    {[none |-> FALSE, len |-> n, close |-> Num(c), ma200 |-> ma,
      macd |-> cur[1], signal |-> cur[2],
      macd_prev |-> prv[1], signal_prev |-> prv[2]] :
        c \in closes, ma \in SmaValues(n - 1),
        cur \in MacdRows(n - 1), prv \in MacdRows(n - 2)}

\* ------------------------------------------------------------------ main()
\* line 161
TrendOf(d) == IF Gt(d.close, d.ma200) THEN "UPTREND" ELSE "DOWNTREND"

\* `a and b` where b reads iloc[-2]: b is evaluated only when a is True, and
\* raises IndexError when the frame has a single row.
AndPrev(a, d, b) ==
    IF ~a THEN "False"
    ELSE IF d.len < 2 THEN "IndexError"
    ELSE IF b THEN "True" ELSE "False"

\* lines 166-170 with their six comparisons as arguments: the current-row and
\* previous-row tests of the if and of the elif, and the two zero-line tests.
SignalFrom(d, upCurr, upPrev, callOk, downCurr, downPrev, putOk) ==
    LET up == AndPrev(upCurr, d, upPrev)
        down == AndPrev(downCurr, d, downPrev)
    IN  IF up = "IndexError" THEN "IndexError"
        ELSE IF up = "True" THEN (IF callOk THEN "CALL" ELSE "NONE")
        ELSE IF down = "IndexError" THEN "IndexError"
        ELSE IF down = "True" THEN (IF putOk THEN "PUT" ELSE "NONE")
        ELSE "NONE"

\* Variants of lines 166-170, each with one plausible slip.
SignalOf_StrictPrevBull(d) ==
    SignalFrom(d, Gt(d.macd, d.signal), Lt(d.macd_prev, d.signal_prev),
               Lt(d.macd, Zero),
               Lt(d.macd, d.signal), Ge(d.macd_prev, d.signal_prev),
               Gt(d.macd, Zero))

SignalOf_StrictPrevBear(d) ==
    SignalFrom(d, Gt(d.macd, d.signal), Le(d.macd_prev, d.signal_prev),
               Lt(d.macd, Zero),
               Lt(d.macd, d.signal), Gt(d.macd_prev, d.signal_prev),
               Gt(d.macd, Zero))

SignalOf_ZeroInclusive(d) ==
    SignalFrom(d, Gt(d.macd, d.signal), Le(d.macd_prev, d.signal_prev),
               Le(d.macd, Zero),
               Lt(d.macd, d.signal), Ge(d.macd_prev, d.signal_prev),
               Ge(d.macd, Zero))

SignalOf_CurrInclusive(d) ==
    SignalFrom(d, Ge(d.macd, d.signal), Le(d.macd_prev, d.signal_prev),
               Lt(d.macd, Zero),
               Lt(d.macd, d.signal), Ge(d.macd_prev, d.signal_prev),
               Gt(d.macd, Zero))

SignalOf_TrendGated(d) ==
    SignalFrom(d, Gt(d.macd, d.signal), Le(d.macd_prev, d.signal_prev),
               Lt(d.macd, Zero) /\ TrendOf(d) = "UPTREND",
               Lt(d.macd, d.signal), Ge(d.macd_prev, d.signal_prev),
               Gt(d.macd, Zero) /\ TrendOf(d) = "DOWNTREND")

SignalOf_Cooldown(d) ==
    IF lastSignal \in {"CALL", "PUT"}
    THEN "NONE"
    ELSE SignalFrom(d, Gt(d.macd, d.signal), Le(d.macd_prev, d.signal_prev),
                    Lt(d.macd, Zero),
                    Lt(d.macd, d.signal), Ge(d.macd_prev, d.signal_prev),
                    Gt(d.macd, Zero))

\* lines 166-170
SignalOf(d) ==
    SignalFrom(d, Gt(d.macd, d.signal), Le(d.macd_prev, d.signal_prev),
               Lt(d.macd, Zero),
               Lt(d.macd, d.signal), Ge(d.macd_prev, d.signal_prev),
               Gt(d.macd, Zero))

Init ==
    /\ pc = "start"
    /\ check_connect = "unset"
    /\ fetch = "unset"
    /\ df = DfNone
    /\ status = "empty"
    /\ error = "none"
    /\ trend = "unset"
    /\ signal = "unset"
    /\ warning = FALSE
    /\ place = "unset"
    /\ trade = "none"
    /\ probe = DfNone
    /\ probeSignal = "unset"
    /\ lastSignal = "unset"

\* lines 118-143: the sidebar inputs and the "Connect and Analyze" button.
Start(email, password, clicked) ==
    /\ pc = "start"
    /\ IF ~clicked
       THEN /\ pc' = "done"
            /\ UNCHANGED <<status, error>>
       ELSE IF ~email \/ ~password
       THEN /\ error' = "credentials"
            /\ pc' = "done"
            /\ UNCHANGED status
       ELSE /\ status' = "connecting"
            /\ pc' = "connect"
            /\ UNCHANGED error
    /\ UNCHANGED <<check_connect, fetch, df, trend, signal, warning, place, trade>>

\* lines 146-151, 194-195: client.connect() inside get_data().
Connect(outcome) ==
    /\ pc = "connect"
    /\ check_connect' = outcome
    /\ pc' = CASE outcome = "true" -> "fetch"
               [] outcome = "false" -> "analyze"
               [] outcome = "raised" -> "done"
    /\ error' = IF outcome = "raised" THEN "connect raised" ELSE error
    /\ UNCHANGED <<fetch, df, status, trend, signal, warning, place, trade>>

\* lines 24-52, 194-195: get_candles and the indicator columns.
get_historical_data(counts, closes) ==
    /\ pc = "fetch"
    /\ \/ /\ fetch' = "empty"
          /\ df' = DfNone
          /\ pc' = "analyze"
          /\ UNCHANGED error
       \/ /\ \E n \in counts : df' \in DataFrames(n, closes)
          /\ fetch' = "data"
          /\ pc' = "analyze"
          /\ UNCHANGED error
       \/ /\ fetch' = "raised"
          /\ error' = "get_candles raised"
          /\ pc' = "done"
          /\ UNCHANGED df
    /\ UNCHANGED <<check_connect, status, trend, signal, warning, place, trade>>

\* lines 155-175, 191-195: the status, the three metrics and the chart.
\* plotted: whether plot_strategy and st.plotly_chart returned; when they
\* raise, main() reports the exception and the trade button is never drawn.
Analyze(plotted) ==
    /\ pc = "analyze"
    /\ IF df.none
       THEN /\ status' = "Failed to connect to Quotex"
            /\ pc' = "done"
            /\ UNCHANGED <<trend, signal, error>>
       ELSE /\ status' = "Connected! Analyzing data..."
            /\ trend' = TrendOf(df)
            /\ IF SignalOf(df) = "IndexError"
               THEN /\ error' = "IndexError"
                    /\ pc' = "done"
                    /\ UNCHANGED signal
               ELSE /\ signal' = SignalOf(df)
                    /\ error' = IF plotted THEN error ELSE "plot raised"
                    /\ pc' = IF plotted THEN "trade" ELSE "done"
    /\ UNCHANGED <<check_connect, fetch, df, warning, place, trade>>

PlaceTrade_AnySignal(clicked) ==
    /\ pc = "trade"
    /\ place' = IF clicked THEN "true" ELSE "false"
    /\ pc' = "done"
    /\ IF clicked
       THEN /\ status' = "Placing trade..."
            /\ trade' = signal
            /\ error' = "AttributeError"
            /\ UNCHANGED warning
       ELSE UNCHANGED <<status, trade, error, warning>>
    /\ UNCHANGED <<check_connect, fetch, df, trend, signal>>

\* lines 178-189, 194-195: the "Place Trade" button.  clicked is what
\* st.button returns in this run, an input of the run like the other widgets.
\* MACDStrategy defines no execute_trade, so the call raises AttributeError,
\* which main() reports.
PlaceTrade(clicked) ==
    /\ pc = "trade"
    /\ place' = IF clicked THEN "true" ELSE "false"
    /\ pc' = "done"
    /\ IF clicked /\ signal # "NONE"
       THEN /\ status' = "Placing trade..."
            /\ trade' = signal
            /\ error' = "AttributeError"
            /\ UNCHANGED warning
       ELSE IF clicked
       THEN /\ warning' = TRUE
            /\ UNCHANGED <<status, trade, error>>
       ELSE UNCHANGED <<status, trade, error, warning>>
    /\ UNCHANGED <<check_connect, fetch, df, trend, signal>>

\* Streamlit runs main() again, from an empty page, on the next interaction.
Rerun ==
    /\ pc = "done"
    /\ pc' = "start"
    /\ check_connect' = "unset"
    /\ fetch' = "unset"
    /\ df' = DfNone
    /\ status' = "empty"
    /\ error' = "none"
    /\ trend' = "unset"
    /\ signal' = "unset"
    /\ warning' = FALSE
    /\ place' = "unset"
    /\ trade' = "none"

Next ==
    \/ \E email \in BOOLEAN, password \in BOOLEAN, clicked \in BOOLEAN :
          Start(email, password, clicked) /\ UNCHANGED ghostVars
    \/ \E outcome \in {"true", "false", "raised"} :
          Connect(outcome) /\ UNCHANGED ghostVars
    \/ get_historical_data(1 .. MaxCandles, Closes) /\ UNCHANGED ghostVars
    \/ \E plotted \in BOOLEAN : Analyze(plotted) /\ UNCHANGED ghostVars
    \/ \E clicked \in BOOLEAN : PlaceTrade(clicked) /\ UNCHANGED ghostVars
    \/ Rerun /\ UNCHANGED ghostVars

Spec == Init /\ [][Next]_vars

\* ------------------------------------------------- repeated classifier calls
\* Runs of main() one after another, each on one of a small set of inputs: the
\* candle counts at which the definedness of the last two rows changes, with
\* the last close fixed (lines 166-170 do not read it).
WarmupLens == {1, MacdLookback + 1, MacdLookback + 2}

InitCalls ==
    /\ pc = "start"
    /\ check_connect = "unset"
    /\ fetch = "unset"
    /\ df = DfNone
    /\ status = "empty"
    /\ error = "none"
    /\ trend = "unset"
    /\ signal = "unset"
    /\ warning = FALSE
    /\ place = "unset"
    /\ trade = "none"
    /\ \E n \in WarmupLens : probe \in DataFrames(n, {0})
    /\ probeSignal = "unset"
    /\ lastSignal = "unset"

\* The first Signal shown for probe is remembered.
ObserveSignal ==
    /\ probe' = probe
    /\ probeSignal' = IF probeSignal = "unset" /\ df = probe /\ signal' # "unset"
                      THEN signal'
                      ELSE probeSignal
    /\ lastSignal' = lastSignal

\* When a run ends, its Signal becomes the previous run's Signal.
ObserveRerun ==
    /\ probe' = probe
    /\ probeSignal' = probeSignal
    /\ lastSignal' = IF probeSignal # "unset" /\ signal # "unset"
                     THEN signal
                     ELSE lastSignal

NextCalls ==
    \/ \E email \in BOOLEAN, password \in BOOLEAN, clicked \in BOOLEAN :
          Start(email, password, clicked) /\ UNCHANGED ghostVars
    \/ \E outcome \in {"true", "false", "raised"} :
          Connect(outcome) /\ UNCHANGED ghostVars
    \/ get_historical_data(WarmupLens, {0}) /\ UNCHANGED ghostVars
    \/ \E plotted \in BOOLEAN : Analyze(plotted) /\ ObserveSignal
    \/ \E clicked \in BOOLEAN : PlaceTrade(clicked) /\ UNCHANGED ghostVars
    \/ Rerun /\ ObserveRerun

SpecCalls == InitCalls /\ [][NextCalls]_vars

\* ------------------------------------------------------------------ claims
\* The classifier has been applied to df in this run and its Signal is shown.
Shown == signal # "unset"

\* macd and signal are defined at both of the last two rows.
MacdDefined(d) ==
    /\ ~d.none /\ d.len >= 2
    /\ ~d.macd.nan /\ ~d.signal.nan /\ ~d.macd_prev.nan /\ ~d.signal_prev.nan

Bullish(d) == d.macd_prev.v <= d.signal_prev.v /\ d.macd.v > d.signal.v
Bearish(d) == d.macd_prev.v >= d.signal_prev.v /\ d.macd.v < d.signal.v

\* The decision rules as the specification states them.
Decision(d) ==
    IF Bullish(d) /\ d.macd.v < 0 THEN "CALL"
    ELSE IF Bearish(d) /\ d.macd.v > 0 THEN "PUT"
    ELSE "NONE"

\* C1: with macd and signal defined at prev and curr, a bullish crossover
\* (prev.macd <= prev.signal, curr.macd > curr.signal) with curr.macd < 0 is
\* shown as CALL; prev.macd = prev.signal counts as a crossover.
C1_BullishBelowZeroIsCall ==
    (Shown /\ MacdDefined(df) /\ Bullish(df) /\ df.macd.v < 0) => signal = "CALL"

C1_Witness ==
    /\ Shown /\ MacdDefined(df)
    /\ df.macd_prev.v = df.signal_prev.v
    /\ df.macd.v > df.signal.v /\ df.macd.v < 0
    /\ signal = "CALL"

\* C2: with macd and signal defined at prev and curr, a bearish crossover
\* (prev.macd >= prev.signal, curr.macd < curr.signal) with curr.macd > 0 is
\* shown as PUT; prev.macd = prev.signal counts as a crossover.
C2_BearishAboveZeroIsPut ==
    (Shown /\ MacdDefined(df) /\ Bearish(df) /\ df.macd.v > 0) => signal = "PUT"

C2_Witness ==
    /\ Shown /\ MacdDefined(df)
    /\ df.macd_prev.v = df.signal_prev.v
    /\ df.macd.v < df.signal.v /\ df.macd.v > 0
    /\ signal = "PUT"

\* C3: zero-line gate.  A bullish crossover with curr.macd >= 0 and a bearish
\* crossover with curr.macd <= 0 are shown as NONE: neither as their own
\* direction nor as the opposite one.
C3_ZeroLineGate ==
    /\ (Shown /\ MacdDefined(df) /\ Bullish(df) /\ df.macd.v >= 0)
          => signal = "NONE"
    /\ (Shown /\ MacdDefined(df) /\ Bearish(df) /\ df.macd.v <= 0)
          => signal = "NONE"

C3_Witness ==
    /\ Shown /\ MacdDefined(df)
    /\ Bullish(df) /\ df.macd.v = 0
    /\ signal = "NONE"

\* C8: with macd and signal defined and neither crossover condition true (in
\* particular curr.macd = curr.signal) the Signal is NONE; the two crossover
\* conditions never hold together and the Signal is one of NONE, CALL, PUT.
C8_NoCrossoverIsNone ==
    /\ (Shown /\ MacdDefined(df) /\ ~Bullish(df) /\ ~Bearish(df))
          => signal = "NONE"
    /\ (Shown /\ MacdDefined(df)) => ~(Bullish(df) /\ Bearish(df))
    /\ Shown => signal \in {"NONE", "CALL", "PUT"}

C8_Witness ==
    /\ Shown /\ MacdDefined(df)
    /\ df.macd.v = df.signal.v /\ df.macd_prev.v = df.signal_prev.v
    /\ df.macd.v < 0
    /\ signal = "NONE"

C6_TrendDoesNotGate ==
    (Shown /\ MacdDefined(df) /\ ~df.ma200.nan)
        => \A c \in Closes, m \in Closes :
              SignalOf([df EXCEPT !.close = Num(c), !.ma200 = Num(m)]) = signal

C6_Witness ==
    /\ Shown /\ MacdDefined(df) /\ ~df.ma200.nan
    /\ trend = "UPTREND"
    /\ signal = "CALL"
    /\ TrendOf([df EXCEPT !.close = Zero, !.ma200 = Num(MaxClose)]) = "DOWNTREND"

\* C7 (as claimed): a trend is shown only where ma200 is defined, and then it
\* is UPTREND when close > ma200 and DOWNTREND otherwise.
C7_TrendUndefinedWithoutMA ==
    trend # "unset"
        => /\ ~df.ma200.nan
           /\ trend = IF df.close.v > df.ma200.v THEN "UPTREND" ELSE "DOWNTREND"

\* C9: the classifier keeps no state.  Every run whose (prev, curr) input is
\* probe shows the Signal the first such run showed, whatever runs came between.
C9_SameInputSameSignal ==
    (Shown /\ df = probe) => signal = probeSignal

C9_Witness ==
    /\ Shown /\ df = probe
    /\ signal = "CALL"
    /\ lastSignal \in {"NONE", "PUT"}

\* C10: execute_trade is called only after connect succeeded, candles came
\* back, "Place Trade" was pressed and the Signal shown is CALL or PUT (and
\* with that Signal); pressing it with the Signal NONE calls nothing and shows
\* the warning; a refused connect or an empty fetch ends with neither trend,
\* Signal nor trade, and with the failure status.
C10_TradeOnlyOnSignal ==
    /\ trade # "none"
          => /\ check_connect = "true" /\ fetch = "data" /\ place = "true"
             /\ signal \in {"CALL", "PUT"} /\ trade = signal
    /\ (place = "true" /\ signal = "NONE") => (trade = "none" /\ warning)
    /\ (check_connect = "false" \/ fetch = "empty")
          => /\ trend = "unset" /\ signal = "unset" /\ trade = "none"
             /\ pc = "done" => status = "Failed to connect to Quotex"

C10_Witness ==
    /\ check_connect = "true" /\ fetch = "data" /\ place = "true"
    /\ signal = "PUT" /\ trade = "PUT"

====
